---- MODULE Spec2Model ----
(***************************************************************************)
(* A model of include/highfive/bits/H5DataType_misc.hpp (HighFive):        *)
(*   - CompoundType::create and the struct padding rule,                   *)
(*   - create_and_check_datatype<T>,                                       *)
(*   - FixedLenStringArray<N>,                                             *)
(*   - CompoundType::commit / EnumType<T>::commit,                         *)
(*   - find_first_atomic_member_size, call by call.                        *)
(* The HDF5 library is the environment: its calls either succeed or fail,  *)
(* chosen nondeterministically where the header tests their result.        *)
(***************************************************************************)
EXTENDS Integers, Naturals, Sequences, FiniteSets, TLC

VARIABLES
    \* ---- CompoundType ----
    members,      \* CompoundType::members: sequence of member_def (base_type, offset)
    call,         \* arguments of the create(size) call: size and members on entry
    h5,           \* what the HDF5 library holds for _hid: created?, size, inserted members
    outcome,      \* how create(size) ended
    padZero,      \* _H5_STRUCT_PADDING was evaluated with member_size = 0
    \* ---- create_and_check_datatype<T> ----
    chk,          \* the last create_and_check_datatype<T>() call and how it ended
    \* ---- FixedLenStringArray<N> ----
    status,       \* lifetime of the FixedLenStringArray object
    datavec,      \* FixedLenStringArray::datavec: sequence of N-byte buffers
    last,         \* the last FixedLenStringArray operation, its input and result
    \* ---- commit ----
    ns,           \* names the storage object holds a committed datatype under
    commitLast,   \* the last commit call and how it ended
    \* ---- find_first_atomic_member_size ----
    ff            \* the running find_first_atomic_member_size call: where it is, its result

cvars == <<members, call, h5, outcome, padZero>>
kvars == <<chk>>
svars == <<status, datavec, last>>
mvars == <<ns, commitLast>>
fvars == <<ff>>
vars  == <<members, call, h5, outcome, padZero, chk, status, datavec, last, ns, commitLast, ff>>

Min(a, b) == IF a <= b THEN a ELSE b
Max(a, b) == IF a >= b THEN a ELSE b

(***************************************************************************)
(* Bounds of the model.                                                    *)
(***************************************************************************)
MaxMembers == 3        \* members of one CompoundType
MaxUBPad   == 2        \* values an undefined "x % 0" is let to produce: 0..MaxUBPad

(***************************************************************************)
(* Datatype descriptors (what an hid_t stands for).  cls is H5Tget_class,  *)
(* size is H5Tget_size (0 = the library reports failure), variable is      *)
(* H5Tis_variable_str, sub are the member types of a compound.             *)
(***************************************************************************)
Threw == -1            \* an operator's value when the C++ function throws

Atomic(cls, size) == [cls |-> cls, size |-> size, variable |-> FALSE, sub |-> <<>>]

h5t_get_size(d) == IF d.size = 0 THEN Threw ELSE d.size

RECURSIVE find_first_atomic_member_size(_)
find_first_atomic_member_size(d) ==
    IF d.cls = "Compound"
    THEN IF Len(d.sub) = 0
         THEN Threw
         ELSE find_first_atomic_member_size(d.sub[1])
    ELSE IF d.cls = "String"
         THEN 1
         ELSE h5t_get_size(d)

\* The mutant of the padding rule: the second branch without its outer "% member_size".
H5_STRUCT_PADDING_noouter(current_size, member_size) ==
    IF member_size >= current_size
    THEN (member_size - current_size) % member_size
    ELSE member_size - ((current_size - member_size) % member_size)

\* #define _H5_STRUCT_PADDING(current_size, member_size), for member_size >= 1.
\* Only the branch taken is evaluated, so no size_t subtraction wraps around.
H5_STRUCT_PADDING(current_size, member_size) ==
    IF member_size >= current_size
    THEN (member_size - current_size) % member_size
    ELSE (member_size - ((current_size - member_size) % member_size)) % member_size

\* member.offset = current_size + _H5_STRUCT_PADDING(current_size, first_atomic_size)
member_offset(current_size, first_atomic_size) ==
    current_size + H5_STRUCT_PADDING(current_size, first_atomic_size)

\* The mutant of the end of a member: the padding before it is forgotten.
end_of_member_nopad(current_size, offset, member_size) == current_size + member_size

\* current_size = member.offset + member_size
end_of_member(current_size, offset, member_size) == offset + member_size

\* The mutant of the running maximum: the last member's unit replaces it.
max_atomic_last(max_atomic_size, first_atomic_size) == first_atomic_size

\* max_atomic_size = std::max(max_atomic_size, first_atomic_size)
max_atomic(max_atomic_size, first_atomic_size) == Max(max_atomic_size, first_atomic_size)

(***************************************************************************)
(* The first pass of CompoundType::create: the loop over the members from  *)
(* member i on.  It stops where h5t_get_size or                            *)
(* find_first_atomic_member_size throws; the offsets set before stay set.  *)
(***************************************************************************)
RECURSIVE first_pass(_, _, _, _)
first_pass(ms, i, current_size, max_atomic_size) ==
    IF i > Len(ms)
    THEN [threw |-> FALSE, members |-> ms,
          current_size |-> current_size, max_atomic_size |-> max_atomic_size]
    ELSE LET member_size       == h5t_get_size(ms[i].base_type)
             first_atomic_size == IF member_size = Threw THEN Threw
                                  ELSE find_first_atomic_member_size(ms[i].base_type)
         IN  IF member_size = Threw \/ first_atomic_size = Threw
             THEN [threw |-> TRUE, members |-> ms,
                   current_size |-> current_size, max_atomic_size |-> max_atomic_size]
             ELSE LET offset == member_offset(current_size, first_atomic_size)
                  IN  first_pass([ms EXCEPT ![i].offset = offset], i + 1,
                                 end_of_member(current_size, offset, member_size),
                                 max_atomic(max_atomic_size, first_atomic_size))

\* The mutant of the guard "if (size == 0)": the first pass runs whatever size is.
runs_first_pass_always(size) == TRUE

\* if (size == 0) { ...first pass... }
runs_first_pass(size) == size = 0

(***************************************************************************)
(* A compound descriptor as CompoundType::create(0) builds it from member  *)
(* types: used for the nested members of the model.                        *)
(***************************************************************************)
Compound(subs) ==
    LET ms == [i \in 1..Len(subs) |-> [base_type |-> subs[i], offset |-> 0]]
        r  == first_pass(ms, 1, 0, 0)
    IN  [cls |-> "Compound",
         size |-> r.current_size + H5_STRUCT_PADDING(r.current_size, r.max_atomic_size),
         variable |-> FALSE, sub |-> subs]

Int8    == Atomic("Integer", 1)
Int32   == Atomic("Integer", 4)
Float64 == Atomic("Float", 8)
Str3    == Atomic("String", 3)                      \* create_string(3)
Pair    == Compound(<<Int8, Int32>>)                \* nested: unit 1, size 8
Nest    == Compound(<<Compound(<<Int32, Int8>>), Float64>>)  \* nested twice: unit 4, size 16
\* CompoundType({}, 4): a compound without members
NoMembers == [cls |-> "Compound", size |-> 4, variable |-> FALSE, sub |-> <<>>]
\* an hid the library cannot size
BadHid  == Atomic("Invalid", 0)

\* the member_def values a caller passes: (base_type, offset)
MemberDefs ==
    { [base_type |-> Int8,      offset |-> 0],
      [base_type |-> Int32,     offset |-> 0],
      [base_type |-> Int32,     offset |-> 4],
      [base_type |-> Float64,   offset |-> 0],
      [base_type |-> Float64,   offset |-> 8],
      [base_type |-> Str3,      offset |-> 0],
      [base_type |-> Pair,      offset |-> 0],
      [base_type |-> Nest,      offset |-> 0],
      [base_type |-> NoMembers, offset |-> 0],
      [base_type |-> BadHid,    offset |-> 0] }

\* the size argument of create: 0 (compute it) or an explicit size
SizeArgs == {0, 8, 12}

\* what the undefined "x % 0" of the final padding does: the process dies, or it
\* yields some number
UBOutcomes == {-1} \cup (0..MaxUBPad)

NoH5 == [created |-> FALSE, size |-> 0, inserted |-> <<>>]

(***************************************************************************)
(* H5Tcreate(H5T_COMPOUND, size) and the H5Tinsert loop.  createOk is the  *)
(* library's answer to H5Tcreate, failAt the first member whose H5Tinsert  *)
(* fails (0: none).                                                        *)
(***************************************************************************)
register(ms, size, createOk, failAt) ==
    IF ~createOk
    THEN [h5 |-> NoH5, outcome |-> "DataTypeException"]
    ELSE LET n == IF failAt = 0 THEN Len(ms) ELSE failAt - 1
         IN  [h5 |-> [created |-> TRUE, size |-> size,
                      inserted |-> [i \in 1..n |->
                                      [offset |-> ms[i].offset,
                                       size   |-> ms[i].base_type.size]]],
              outcome |-> IF failAt = 0 THEN "ok" ELSE "DataTypeException"]

(***************************************************************************)
(* CompoundType::create(size), whole.                                      *)
(***************************************************************************)
create(size, createOk, failAt, ub) ==
    /\ outcome = "none"
    /\ call' = [size |-> size, members |-> members]
    /\ IF runs_first_pass(size)
       THEN LET r == first_pass(members, 1, 0, 0)
            IN  /\ members' = r.members
                /\ IF r.threw
                   THEN /\ h5' = NoH5
                        /\ outcome' = "DataTypeException"
                        /\ padZero' = FALSE
                   ELSE IF r.max_atomic_size = 0
                   THEN \* current_size + ((0 - 0) % 0): undefined behaviour
                        /\ padZero' = TRUE
                        /\ IF ub = -1
                           THEN /\ h5' = NoH5
                                /\ outcome' = "crash"
                           ELSE LET g == register(r.members, r.current_size + ub,
                                                  createOk, failAt)
                                IN  h5' = g.h5 /\ outcome' = g.outcome
                   ELSE LET total == r.current_size +
                                     H5_STRUCT_PADDING(r.current_size, r.max_atomic_size)
                            g == register(r.members, total, createOk, failAt)
                        IN  /\ padZero' = FALSE
                            /\ h5' = g.h5
                            /\ outcome' = g.outcome
       ELSE LET g == register(members, size, createOk, failAt)
            IN  /\ members' = members
                /\ padZero' = FALSE
                /\ h5' = g.h5
                /\ outcome' = g.outcome

\* CompoundType(std::vector<member_def>, size): the caller's member list, one
\* member_def at a time
AddMember ==
    /\ outcome = "none"
    /\ Len(members) < MaxMembers
    /\ \E m \in MemberDefs : members' = Append(members, m)
    /\ UNCHANGED <<call, h5, outcome, padZero>>
    /\ UNCHANGED <<kvars, svars, mvars, fvars>>

Create ==
    /\ \E size \in SizeArgs, createOk \in BOOLEAN,
          failAt \in 0..Len(members), ub \in UBOutcomes :
            create(size, createOk, failAt, ub)
    /\ UNCHANGED <<kvars, svars, mvars, fvars>>

IdleCheck  == chk = [called |-> FALSE]
IdleString == status = "none" /\ datavec = <<>> /\ last = [op |-> "none"]
IdleCommit == ns = {} /\ commitLast = [called |-> FALSE]
IdleFind   == ff = [pc |-> "idle"]

InitCompound ==
    /\ members = <<>>
    /\ call = [size |-> -1, members |-> <<>>]
    /\ h5 = NoH5
    /\ outcome = "none"
    /\ padZero = FALSE
    /\ IdleCheck /\ IdleString /\ IdleCommit /\ IdleFind

NextCompound == AddMember \/ Create

SpecCompound == InitCompound /\ [][NextCompound]_vars

(***************************************************************************)
(* Claims about CompoundType::create, checked under SpecCompound.          *)
(***************************************************************************)
MaxPadCur  == 32       \* current_size values the padding rule is compared on
MaxPadUnit == 8        \* alignment units the padding rule is compared on

\* create(0) returned normally for a non-empty member list
Built0 == outcome = "ok" /\ call.size = 0 /\ call.members # <<>>

\* create(size), size # 0, returned normally
BuiltExplicit == outcome = "ok" /\ call.size # 0

BaseTypes(ms) == [i \in 1..Len(ms) |-> ms[i].base_type]
Offsets(s)    == [i \in 1..Len(s) |-> s[i].offset]

\* the alignment unit of member i, and the largest one (spec 4.3)
Unit(ms, i) == find_first_atomic_member_size(ms[i].base_type)
MaxAlignment(ms) == CHOOSE u \in {Unit(ms, i) : i \in 1..Len(ms)} :
                        \A i \in 1..Len(ms) : Unit(ms, i) <= u

\* the smallest multiple of a that is >= c
RoundUp(c, a) == CHOOSE k \in c..(c + a - 1) : k % a = 0

\* C1: after create(0) on a non-empty member list every member lies inside the
\* composite (offset + size <= total size), the offsets are non-decreasing in
\* declaration order, and no two members' byte ranges overlap.
C1_MembersDisjointWithinTotal ==
    Built0 =>
        LET ins == h5.inserted
            n   == Len(ins)
        IN  /\ n = Len(members)
            /\ \A i \in 1..n : /\ ins[i].offset = members[i].offset
                               /\ ins[i].size >= 1
                               /\ ins[i].offset + ins[i].size <= h5.size
            /\ \A i \in 1..(n - 1) : ins[i].offset <= ins[i + 1].offset
            /\ \A i, j \in 1..n :
                 i # j => \/ ins[i].offset + ins[i].size <= ins[j].offset
                          \/ ins[j].offset + ins[j].size <= ins[i].offset

\* a three-member layout with a string, a nested composite and padding before a member
C1_Witness ==
    /\ Built0
    /\ Len(members) = 3
    /\ \E i \in 1..3 : members[i].base_type.cls = "String"
    /\ \E i \in 1..3 : members[i].base_type.cls = "Compound"
    /\ \E i \in 1..2 : h5.inserted[i + 1].offset >
                         h5.inserted[i].offset + h5.inserted[i].size

\* C2 as stated: the total size of every composite create builds is a multiple of
\* the largest alignment unit among its members.
C2_EveryCompositeMultiple ==
    (/\ outcome = "ok"
     /\ call.members # <<>>
     /\ \A i \in 1..Len(call.members) : Unit(call.members, i) >= 1)
        => h5.size % MaxAlignment(call.members) = 0

\* C2 amended: the total size of every composite create(0) builds from a non-empty
\* member list is a multiple of the largest alignment unit among its members.
C2_ComputedTotalMultiple ==
    Built0 => /\ MaxAlignment(members) >= 1
              /\ h5.size % MaxAlignment(members) = 0

\* trailing padding was needed: the end of the last member is no multiple of the unit
C2_Witness ==
    /\ Built0
    /\ Len(members) >= 2
    /\ LET e == h5.inserted[Len(members)]
       IN  /\ (e.offset + e.size) % MaxAlignment(members) # 0
           /\ h5.size > e.offset + e.size

\* C3: the padding rule is (align_unit - current_size mod align_unit) mod align_unit,
\* so every offset is the smallest multiple of the member's alignment unit at or after
\* the end of the previous member, and the total size is the end of the last member
\* rounded up to a multiple of the largest unit; sizes (4,4) and (1,4) both give
\* offsets {0,4} and total size 8.
C3_PaddingRoundsUp ==
    /\ \A c \in 0..MaxPadCur, a \in 1..MaxPadUnit :
         H5_STRUCT_PADDING(c, a) = (a - (c % a)) % a
    /\ Built0 =>
         LET ins == h5.inserted
             n   == Len(ins)
             end(i) == IF i = 0 THEN 0 ELSE ins[i].offset + ins[i].size
         IN  /\ n = Len(members)
             /\ \A i \in 1..n : ins[i].offset = RoundUp(end(i - 1), Unit(members, i))
             /\ h5.size = RoundUp(end(n), MaxAlignment(members))
    /\ (Built0 /\ BaseTypes(members) \in {<<Int32, Int32>>, <<Int8, Int32>>})
         => Offsets(h5.inserted) = <<0, 4>> /\ h5.size = 8

\* the alignment-insertion case: a 1-byte field, then a 4-byte field
C3_Witness ==
    /\ Built0
    /\ BaseTypes(members) = <<Int8, Int32>>
    /\ Offsets(h5.inserted) = <<0, 4>>
    /\ h5.size = 8

\* C4 as stated: with a non-zero explicit size the size is used verbatim and the
\* offsets inserted are the ones the alignment algorithm computes.
C4_ExplicitSizeComputedOffsets ==
    (BuiltExplicit /\ ~first_pass(call.members, 1, 0, 0).threw)
        => /\ h5.size = call.size
           /\ Offsets(h5.inserted) = Offsets(first_pass(call.members, 1, 0, 0).members)

\* C4 amended: with a non-zero explicit size the size is used verbatim, the first
\* pass does not run, and the offsets inserted are the ones the members carried on
\* entry.
C4_ExplicitSizeEntryOffsets ==
    BuiltExplicit => /\ h5.size = call.size
                     /\ members = call.members
                     /\ Offsets(h5.inserted) = Offsets(call.members)

\* an explicit size with an entry offset the alignment algorithm would not compute
C4_Witness ==
    /\ BuiltExplicit
    /\ Len(call.members) >= 1
    /\ call.members[1].offset = 4
    /\ h5.inserted[1].offset = 4
    /\ h5.size = 12

\* C5: create(0) on an empty member list ends in a DataTypeException, without
\* evaluating the padding rule with an alignment unit of 0 and without registering
\* a composite with the library.
C5_EmptyFails ==
    (outcome # "none" /\ call.size = 0 /\ call.members = <<>>)
        => /\ outcome = "DataTypeException"
           /\ ~padZero
           /\ ~h5.created

(***************************************************************************)
(* create_and_check_datatype<T>().  T fixes the descriptor create_datatype *)
(* returns and sizeof(T); both are the inputs here.                        *)
(***************************************************************************)
MaxSizeof == 16        \* sizeof(T) ranges over 1..MaxSizeof

VarStr  == [cls |-> "String", size |-> 8, variable |-> TRUE, sub |-> <<>>]  \* AtomicType<std::string>
Str5    == Atomic("String", 5)          \* AtomicType<char[5]>
RefObj  == Atomic("Reference", 8)       \* AtomicType<Reference>: H5T_STD_REF_OBJ
Enum8   == Atomic("Enum", 1)            \* create_enum_boolean()

\* the descriptors create_datatype<T>() returns; BadHid is a DataType with no hid
CheckTypes == {BadHid, Int8, Int32, Float64, VarStr, Str3, Str5, RefObj, Enum8, Pair, Nest}

empty(t)         == t.cls = "Invalid"
getClass(t)      == t.cls
getSize(t)       == h5t_get_size(t)
isVariableStr(t) == t.variable
isFixedLenStr(t) == getClass(t) = "String" /\ ~isVariableStr(t)

\* The mutant of isReference: the exemption of references is lost.
isReference_never(t) == FALSE

\* H5Tequal(_hid, H5T_STD_REF_OBJ) > 0
isReference(t)   == t = RefObj

Returned    == [result |-> "returned", what |-> "t"]
Thrown(msg) == [result |-> "DataTypeException", what |-> msg]

create_and_check_datatype(t, sizeofT) ==
    IF empty(t)
    THEN Thrown("not valid")
    ELSE IF isVariableStr(t)
    THEN Returned
    ELSE IF isReference(t) \/ isFixedLenStr(t)
    THEN Returned
    ELSE IF sizeofT # getSize(t)
    THEN Thrown("size")
    ELSE Returned

CreateAndCheck ==
    /\ \E t \in CheckTypes, sizeofT \in 1..MaxSizeof :
         chk' = [called |-> TRUE, t |-> t, sizeofT |-> sizeofT,
                 r |-> create_and_check_datatype(t, sizeofT)]
    /\ UNCHANGED <<cvars, svars, mvars, fvars>>

IdleCompound ==
    /\ members = <<>>
    /\ call = [size |-> -1, members |-> <<>>]
    /\ h5 = NoH5
    /\ outcome = "none"
    /\ padZero = FALSE

InitCheck == IdleCompound /\ IdleCheck /\ IdleString /\ IdleCommit /\ IdleFind

NextCheck == CreateAndCheck

SpecCheck == InitCheck /\ [][NextCheck]_vars

\* C6: create_and_check_datatype<T>() fails for an empty descriptor; it returns a
\* variable-length string, a reference or a fixed-length string descriptor whatever
\* sizeof(T) is; for any other descriptor it returns it when sizeof(T) is its byte
\* size and fails with the size-mismatch error when it is not.
C6_SizeCheckedUnlessExempt ==
    chk.called =>
        LET d == chk.t
        IN  IF d.cls = "Invalid"
            THEN chk.r.result = "DataTypeException"
            ELSE IF d.cls \in {"String", "Reference"}
            THEN chk.r = Returned
            ELSE IF chk.sizeofT = d.size
            THEN chk.r = Returned
            ELSE chk.r = Thrown("size")

\* an exempt descriptor returned although sizeof(T) is not its size
C6_Witness ==
    /\ chk.called
    /\ chk.t = RefObj
    /\ chk.sizeofT # 8
    /\ chk.r.result = "returned"

(***************************************************************************)
(* FixedLenStringArray<N>.  A char is a number, 0 the null byte; a         *)
(* std::string is a sequence of chars (c_str() adds the terminating 0);    *)
(* an element of datavec is a std::array<char, N>: a sequence of N chars.  *)
(***************************************************************************)
N          == 3        \* the template parameter N (N >= 1)
MaxTextLen == 4        \* longest std::string pushed
MaxElems   == 2        \* elements of datavec

RECURSIVE SeqsOver(_, _)
SeqsOver(S, n) ==
    IF n = 0 THEN {<<>>}
    ELSE LET shorter == SeqsOver(S, n - 1)
         IN  shorter \cup {Append(t, c) : t \in {u \in shorter : Len(u) = n - 1}, c \in S}

\* the strings pushed: every text over two chars, and two with a null byte inside
Texts == SeqsOver({1, 2}, MaxTextLen) \cup {<<0>>, <<1, 0, 2>>}

\* the strings the bulk constructors are given
CtorTexts == {<<>>, <<1>>, <<2, 1>>, <<1, 0, 2>>, <<1, 2, 2, 1, 2>>}

\* the raw std::array<char, N> values pushed
RawArrays == [1..N -> {0, 1}]

\* what lies behind the vector's storage, up to the next null byte
PastEnd == {<<>>, <<2>>}

\* a value-initialised std::array<char, N>: emplace_back(), resize()
ZeroArray == [i \in 1..N |-> 0]

\* std::strlen(src.c_str())
strlen(src) ==
    IF \E j \in 1..Len(src) : src[j] = 0
    THEN (CHOOSE j \in 1..Len(src) : src[j] = 0 /\ \A h \in 1..(j - 1) : src[h] # 0) - 1
    ELSE Len(src)

\* std::memcpy(dst.data(), src, length); dst[length] = 0;
\* (with length = N the assignment would fall outside dst: it is not part of it)
store(dst, src, length) ==
    [i \in 1..N |-> IF i <= length THEN src[i]
                    ELSE IF i = length + 1 THEN 0
                    ELSE dst[i]]

\* The mutant of the copied length: N instead of N - 1.
push_back_length_full(src) == Min(N, Len(src))

\* const size_t length = std::min(N - 1, src.length());
push_back_length(src) == Min(N - 1, Len(src))

\* const size_t length = std::min(N - 1, std::strlen(src));
ctor_length(src) == Min(N - 1, strlen(src))

\* FixedLenStringArray(const std::string* iter_begin, const std::string* iter_end)
ctor_range_datavec(texts) ==
    [k \in 1..Len(texts) |-> store(ZeroArray, texts[k], ctor_length(texts[k]))]

\* the bytes from element i to the end of the vector's contiguous storage
RECURSIVE bytes_from(_, _)
bytes_from(dv, i) == IF i > Len(dv) THEN <<>> ELSE dv[i] \o bytes_from(dv, i + 1)

\* std::string(datavec[i].data()): the chars up to the first null byte.  Without
\* one in the element the read runs on through the elements that follow and then
\* past the vector (past: what it finds there).
getString(dv, i, past) ==
    LET bytes == bytes_from(dv, i)
    IN  IF \E j \in 1..Len(bytes) : bytes[j] = 0
        THEN LET z == CHOOSE j \in 1..Len(bytes) :
                        bytes[j] = 0 /\ \A h \in 1..(j - 1) : bytes[h] # 0
             IN  [r |-> SubSeq(bytes, 1, z - 1), overread |-> z > N]
        ELSE [r |-> bytes \o past, overread |-> TRUE]

\* FixedLenStringArray() = default
CtorDefault ==
    /\ status = "none"
    /\ status' = "alive"
    /\ datavec' = <<>>
    /\ last' = [op |-> "ctor_default"]
    /\ UNCHANGED <<cvars, kvars, mvars, fvars>>

CtorInputs == UNION {[1..k -> CtorTexts] : k \in 0..MaxElems}

\* FixedLenStringArray(const std::string* iter_begin, const std::string* iter_end)
CtorRange ==
    /\ status = "none"
    /\ \E texts \in CtorInputs :
         /\ datavec' = ctor_range_datavec(texts)
         /\ last' = [op |-> "ctor_range", texts |-> texts]
    /\ status' = "alive"
    /\ UNCHANGED <<cvars, kvars, mvars, fvars>>

\* FixedLenStringArray(const std::vector<std::string>& vec)
\*     : FixedLenStringArray(&vec.front(), &vec.back())
\* For an empty vec front() and back() are undefined: the length the range has
\* is -1, resize throws std::length_error, or the process dies.
CtorVector ==
    /\ status = "none"
    /\ \E vec \in CtorInputs, ub \in {"length_error", "crash"} :
         /\ last' = [op |-> "ctor_vector", texts |-> vec]
         /\ IF Len(vec) = 0
            THEN datavec' = <<>> /\ status' = ub
            ELSE /\ datavec' = ctor_range_datavec(SubSeq(vec, 1, Len(vec) - 1))
                 /\ status' = "alive"
    /\ UNCHANGED <<cvars, kvars, mvars, fvars>>

\* FixedLenStringArray(const std::initializer_list<std::string>& init_list)
\*     : FixedLenStringArray(init_list.begin(), init_list.end())
CtorInitList ==
    /\ status = "none"
    /\ \E init_list \in CtorInputs :
         /\ datavec' = ctor_range_datavec(init_list)
         /\ last' = [op |-> "ctor_list", texts |-> init_list]
    /\ status' = "alive"
    /\ UNCHANGED <<cvars, kvars, mvars, fvars>>

\* void push_back(const std::string& src)
PushBackString ==
    /\ status = "alive"
    /\ Len(datavec) < MaxElems
    /\ \E src \in Texts :
         /\ datavec' = Append(datavec, store(ZeroArray, src, push_back_length(src)))
         /\ last' = [op |-> "push_back", text |-> src, before |-> datavec]
    /\ UNCHANGED status
    /\ UNCHANGED <<cvars, kvars, mvars, fvars>>

\* void push_back(const std::array<char, N>& src)
PushBackArray ==
    /\ status = "alive"
    /\ Len(datavec) < MaxElems
    /\ \E src \in RawArrays :
         /\ datavec' = Append(datavec, src)
         /\ last' = [op |-> "push_back_array", src |-> src, before |-> datavec]
    /\ UNCHANGED status
    /\ UNCHANGED <<cvars, kvars, mvars, fvars>>

\* std::string getString(std::size_t i) const
GetString ==
    /\ status = "alive"
    /\ \E i \in 1..Len(datavec), past \in PastEnd :
         last' = [op |-> "getString", i |-> i, got |-> getString(datavec, i, past)]
    /\ UNCHANGED <<status, datavec>>
    /\ UNCHANGED <<cvars, kvars, mvars, fvars>>

InitString == IdleCompound /\ IdleCheck /\ IdleString /\ IdleCommit /\ IdleFind

NextString ==
    \/ CtorDefault
    \/ CtorRange
    \/ CtorVector
    \/ CtorInitList
    \/ PushBackString
    \/ PushBackArray
    \/ GetString

SpecString == InitString /\ [][NextString]_vars

NoNul(text) == \A j \in 1..Len(text) : text[j] # 0

\* the container an empty array becomes by push_back of each string in order
PushAll(texts) ==
    [k \in 1..Len(texts) |-> store(ZeroArray, texts[k], Min(N - 1, Len(texts[k])))]

\* C7: push_back(text) of a text without null bytes does not fail, appends exactly
\* one element and leaves the earlier ones unchanged; the new element holds the
\* first min(N-1, length) chars of the text followed by a null byte at an index
\* <= N-1, and getString of it returns exactly those chars.
C7_PushBackTruncates ==
    (last.op = "push_back" /\ NoNul(last.text)) =>
        LET k == Len(datavec)
            n == Min(N - 1, Len(last.text))
        IN  /\ status = "alive"
            /\ k = Len(last.before) + 1
            /\ SubSeq(datavec, 1, k - 1) = last.before
            /\ Len(datavec[k]) = N
            /\ n + 1 <= N
            /\ datavec[k][n + 1] = 0
            /\ \A past \in PastEnd :
                 getString(datavec, k, past) =
                     [r |-> SubSeq(last.text, 1, n), overread |-> FALSE]

\* a text longer than N-1 pushed behind an element already there, and truncated
C7_Witness ==
    /\ last.op = "push_back"
    /\ NoNul(last.text)
    /\ Len(last.text) > N - 1
    /\ Len(last.before) >= 1
    /\ getString(datavec, Len(datavec), <<>>).r = SubSeq(last.text, 1, N - 1)

\* C8: a bulk constructor given k strings yields the container that an empty array
\* becomes by push_back of each string in order: k elements, element i the i-th
\* string truncated to min(N-1, length) chars and null-terminated.  (Stated for
\* k >= 1, where no constructor's behaviour is undefined.)
C8_BulkEqualsPushBacks ==
    (last.op \in {"ctor_range", "ctor_vector", "ctor_list"} /\ Len(last.texts) >= 1) =>
        /\ status = "alive"
        /\ Len(datavec) = Len(last.texts)
        /\ datavec = PushAll(last.texts)

\* C9: every stored element is N bytes with a null byte at some index <= N-1, and
\* getString never reads past the element's N bytes.
C9_EveryElementTerminated ==
    /\ \A i \in 1..Len(datavec) :
         /\ Len(datavec[i]) = N
         /\ \E j \in 1..N : datavec[i][j] = 0
    /\ last.op = "getString" => ~last.got.overread

(***************************************************************************)
(* CompoundType::commit and EnumType<T>::commit.  The storage object keeps *)
(* the names it holds a committed datatype under; H5Tcommit2 fails for a   *)
(* name already there, and may fail for any other reason (libOk).          *)
(***************************************************************************)
Objects     == {"file", "group"}
CommitNames == {"a", "b", "c"}

\* H5Tcommit2(object.getId(), name.c_str(), getId(), ...): its return value and
\* the namespace afterwards
H5Tcommit2(space, object, name, libOk) ==
    IF libOk /\ <<object, name>> \notin space
    THEN [ret |-> 0, space |-> space \cup {<<object, name>>}]
    ELSE [ret |-> -1, space |-> space]

\* void commit(const Object& object, const std::string& name) const: one call of
\* H5Tcommit2, whose return value is dropped; the function returns
commit(kind, object, name, libOk) ==
    LET c == H5Tcommit2(ns, object, name, libOk)
    IN  /\ ns' = c.space
        /\ commitLast' = [called |-> TRUE, kind |-> kind, object |-> object,
                          name |-> name, attempts |-> 1, ret |-> c.ret,
                          outcome |-> "returned"]

CommitCompound ==
    /\ \E object \in Objects, name \in CommitNames, libOk \in BOOLEAN :
         commit("CompoundType", object, name, libOk)
    /\ UNCHANGED <<cvars, kvars, svars, fvars>>

CommitEnum ==
    /\ \E object \in Objects, name \in CommitNames, libOk \in BOOLEAN :
         commit("EnumType", object, name, libOk)
    /\ UNCHANGED <<cvars, kvars, svars, fvars>>

InitCommit == IdleCompound /\ IdleCheck /\ IdleString /\ IdleCommit /\ IdleFind

NextCommit == CommitCompound \/ CommitEnum

SpecCommit == InitCommit /\ [][NextCommit]_vars

\* C10: whenever the library's commit-named-type primitive reports failure, commit
\* ends in an error propagated to the caller instead of returning normally, and the
\* primitive is attempted exactly once.
C10_CommitSurfacesFailure ==
    commitLast.called =>
        /\ commitLast.attempts = 1
        /\ commitLast.ret < 0 => commitLast.outcome = "DataTypeException"

(***************************************************************************)
(* find_first_atomic_member_size(hid), one call of the recursion at a      *)
(* time.  ff.cur is the hid of the innermost call, ff.depth the number of  *)
(* calls below the outermost one.  A return passes the callee's size up    *)
(* unchanged (H5Tclose, return size) and an exception is caught nowhere,   *)
(* so the innermost call's end is the end of the outermost one.            *)
(***************************************************************************)
MaxDepth == 3          \* nesting depth of the compound descriptors searched

\* the descriptors a compound has as members
FindLeaves == {Int8, Float64, Str3, Enum8}

RECURSIVE SumSizes(_, _)
SumSizes(subs, i) == IF i > Len(subs) THEN 0 ELSE subs[i].size + SumSizes(subs, i + 1)

\* CompoundType(members, size) with the members packed: a compound of the given
\* member types
TreeCompound(subs) ==
    [cls |-> "Compound", size |-> SumSizes(subs, 1), variable |-> FALSE, sub |-> subs]

\* the descriptor trees of nesting depth <= k: a compound has one or two members,
\* the first of them any tree one level less deep
RECURSIVE FindTrees(_)
FindTrees(k) ==
    IF k = 0
    THEN FindLeaves \cup {NoMembers}
    ELSE LET T == FindTrees(k - 1)
         IN  T \cup {TreeCompound(<<t>>) : t \in T}
               \cup {TreeCompound(<<t, l>>) : t \in T, l \in FindLeaves}

\* the hids find_first_atomic_member_size is called with
FindRoots == FindTrees(MaxDepth) \cup {VarStr, RefObj, BadHid}

\* The mutant of the member descended into: the last member instead of member 0.
last_member(d) == d.sub[Len(d.sub)]

\* H5Tget_member_type(hid, 0)
first_member(d) == d.sub[1]

FindDone(result, libfail) ==
    ff' = [pc |-> "done", root |-> ff.root, cur |-> ff.cur, depth |-> ff.depth,
           result |-> result, libfail |-> libfail]

FindRunning == ff.pc = "running"

\* the outermost call
FindCall ==
    /\ ff.pc = "idle"
    /\ \E hid \in FindRoots :
         ff' = [pc |-> "running", root |-> hid, cur |-> hid, depth |-> 0,
                result |-> 0, libfail |-> FALSE]
    /\ UNCHANGED <<cvars, kvars, svars, mvars>>

\* H5Tget_nmembers(hid) == -1: throw DataTypeException("Cannot get members ...")
FindCannotGetMembers ==
    /\ FindRunning
    /\ ff.cur.cls = "Compound"
    /\ FindDone(Threw, TRUE)
    /\ UNCHANGED <<cvars, kvars, svars, mvars>>

\* H5Tget_nmembers(hid) == 0: throw DataTypeException("No members defined ...")
FindNoMembers ==
    /\ FindRunning
    /\ ff.cur.cls = "Compound"
    /\ Len(ff.cur.sub) = 0
    /\ FindDone(Threw, FALSE)
    /\ UNCHANGED <<cvars, kvars, svars, mvars>>

\* member_type = H5Tget_member_type(hid, 0);
\* size = find_first_atomic_member_size(member_type): the next call
FindRecurse ==
    /\ FindRunning
    /\ ff.cur.cls = "Compound"
    /\ Len(ff.cur.sub) > 0
    /\ ff' = [ff EXCEPT !.cur = first_member(ff.cur), !.depth = ff.depth + 1]
    /\ UNCHANGED <<cvars, kvars, svars, mvars>>

\* else if (H5Tget_class(hid) == H5T_STRING) return 1;
FindString ==
    /\ FindRunning
    /\ ff.cur.cls = "String"
    /\ FindDone(1, FALSE)
    /\ UNCHANGED <<cvars, kvars, svars, mvars>>

\* return detail::h5t_get_size(hid);
FindAtomic ==
    /\ FindRunning
    /\ ff.cur.cls \notin {"Compound", "String"}
    /\ FindDone(h5t_get_size(ff.cur), FALSE)
    /\ UNCHANGED <<cvars, kvars, svars, mvars>>

FindStep ==
    \/ FindCannotGetMembers
    \/ FindNoMembers
    \/ FindRecurse
    \/ FindString
    \/ FindAtomic

InitFind == IdleCompound /\ IdleCheck /\ IdleString /\ IdleCommit /\ IdleFind

NextFind == FindCall \/ FindStep

\* the calls are synchronous: a call that can take its next step takes it
SpecFind == InitFind /\ [][NextFind]_vars /\ WF_vars(FindStep)

\* the alignment unit of spec 4.3 (Threw: the error outcome)
RECURSIVE AlignmentUnit(_)
AlignmentUnit(d) ==
    IF d.cls = "Compound"
    THEN IF d.sub = <<>> THEN Threw ELSE AlignmentUnit(d.sub[1])
    ELSE IF d.cls = "String" THEN 1
    ELSE IF d.size = 0 THEN Threw ELSE d.size

\* the number of compounds on the way from d down its first members
RECURSIVE FirstMemberDepth(_)
FirstMemberDepth(d) ==
    IF d.cls = "Compound" /\ d.sub # <<>> THEN 1 + FirstMemberDepth(d.sub[1]) ELSE 0

C11_Result ==
    /\ ff.pc = "running" => ff.depth <= FirstMemberDepth(ff.root)
    /\ (ff.pc = "done" /\ ~ff.libfail) =>
         /\ ff.result = AlignmentUnit(ff.root)
         /\ ff.result = find_first_atomic_member_size(ff.root)
         /\ ff.depth = FirstMemberDepth(ff.root)

\* C11: find_first_atomic_member_size ends on every finite descriptor tree, after
\* as many nested calls as the tree has compounds along its first members, and
\* (unless the library fails to count a compound's members) its result is the
\* alignment unit of spec 4.3: that of the first sub-member, recursively, for a
\* compound with members, 1 for a string, the byte size for any other descriptor,
\* and an error for a compound without members.
C11_FindFirstTerminatesWithUnit ==
    /\ []C11_Result
    /\ (ff.pc = "running") ~> (ff.pc = "done")

\* a compound nested twice whose first leaf is a string next to a larger member
C11_Witness ==
    /\ ff.pc = "done"
    /\ ~ff.libfail
    /\ ff.depth >= 2
    /\ ff.result = 1
    /\ ff.cur.cls = "String"
    /\ Len(ff.root.sub) = 2

====
